---- MODULE Spec2Model ----
(***************************************************************************)
(* KAI JourneySense dashboard (src/app.py): the synthetic-row generator,   *)
(* validate_and_clean, the sidebar filters, the common metrics, the two    *)
(* pages' guarded aggregations and the static KAI-star lookups.            *)
(*                                                                         *)
(* Representation.                                                         *)
(*  - A text value is a sequence of tokens; the token " " is one           *)
(*    whitespace character, every other token is a run of characters that  *)
(*    neither starts nor ends with whitespace.  "Japan" is <<"Japan">>,    *)
(*    " Japan" is <<" ", "Japan">>, the empty string is << >>.  A missing  *)
(*    cell (NaN) is NaNCell.                                               *)
(*  - A date string is a sequence of one-character tokens.                 *)
(*  - A satisfaction is a float in hundredths: 4.05 is 405.                *)
(*  - The en dash of the route names and the star character of the rating  *)
(*    labels are written "-" and "*" (the module is ASCII).                *)
(***************************************************************************)
EXTENDS Integers, Sequences, FiniteSets, TLC

VARIABLES pc, raw, df, err, sel, filtered, refiltered, kpi, view, gen, look

vars == <<pc, raw, df, err, sel, filtered, refiltered, kpi, view, gen, look>>

(* Bounds of the exploration. *)
MaxRows == 2
MaxN == 2

(***************************************************************************)
(* Generic helpers.                                                        *)
(***************************************************************************)
Range(s) == {s[i] : i \in DOMAIN s}

Min2(a, b) == IF a <= b THEN a ELSE b

Max2(a, b) == IF a >= b THEN a ELSE b

SeqsUpTo(S, n) == UNION {[1..k -> S] : k \in 0..n}

(***************************************************************************)
(* Schema.                                                                 *)
(***************************************************************************)
EXPECTED_COLS ==
  <<"date", "country", "language", "route", "purpose",
    "ticket_class", "touchpoint", "satisfaction",
    "positive_feedback", "pain_point">>

TEXT_COLS ==
  <<"country", "language", "route", "purpose", "ticket_class",
    "touchpoint", "positive_feedback", "pain_point">>

(***************************************************************************)
(* Cells and the conversions validate_and_clean applies to them.           *)
(***************************************************************************)
NaNCell == <<"<NaN>">>

(* astype(str): a missing cell becomes the text "nan". *)
AsStr(cell) == IF cell = NaNCell THEN <<"nan">> ELSE cell

RECURSIVE LStrip(_)
LStrip(s) == IF s # << >> /\ Head(s) = " " THEN LStrip(Tail(s)) ELSE s

RECURSIVE RStrip(_)
RStrip(s) ==
  IF s # << >> /\ s[Len(s)] = " " THEN RStrip(SubSeq(s, 1, Len(s) - 1)) ELSE s

(* str.strip() *)
Strip(s) == RStrip(LStrip(s))

(* Floats: nan, or n hundredths. *)
F(n) == [nan |-> FALSE, n |-> n]

NaNF == [nan |-> TRUE, n |-> 0]

(* Raw satisfaction cells: a float, a string (a numeral or not), or missing. *)
FloatCell(n) == [k |-> "float", numeral |-> TRUE, n |-> n]

StrNumCell(n) == [k |-> "str", numeral |-> TRUE, n |-> n]

StrTextCell == [k |-> "str", numeral |-> FALSE, n |-> 0]

NaNSatCell == [k |-> "nan", numeral |-> FALSE, n |-> 0]

(* pd.to_numeric(errors="coerce") on one cell *)
ToNumeric(cell) ==
  IF cell.k = "float" THEN F(cell.n)
  ELSE IF cell.k = "str" /\ cell.numeral THEN F(cell.n)
  ELSE NaNF

(* Series.clip(lo, hi) on one value: nan stays nan *)
Clip(x, lo, hi) == IF x.nan THEN x ELSE F(Max2(lo, Min2(hi, x.n)))

SAT_LO == 100

SAT_HI == 500

(***************************************************************************)
(* Dates: formatting (date.isoformat) and parsing (pd.to_datetime with     *)
(* errors="coerce") of ISO strings.  Strings in another layout are outside *)
(* the inputs explored.                                                    *)
(***************************************************************************)
Digits == <<"0", "1", "2", "3", "4", "5", "6", "7", "8", "9">>

IsDigit(c) == c \in Range(Digits)

DigitVal(c) == (CHOOSE i \in 1..10 : Digits[i] = c) - 1

IsLeap(y) == (y % 4 = 0 /\ y % 100 # 0) \/ y % 400 = 0

DaysInMonth(y, m) ==
  IF m = 2 THEN (IF IsLeap(y) THEN 29 ELSE 28)
  ELSE IF m \in {4, 6, 9, 11} THEN 30
  ELSE 31

ValidDate(y, m, d) ==
  /\ y \in 1..9999
  /\ m \in 1..12
  /\ d \in 1..DaysInMonth(y, m)

(* date.isoformat(): YYYY-MM-DD, zero padded *)
Digit(n) == Digits[(n % 10) + 1]

IsoFormat(y, m, d) ==
  <<Digit(y \div 1000), Digit(y \div 100), Digit(y \div 10), Digit(y), "-",
    Digit(m \div 10), Digit(m), "-", Digit(d \div 10), Digit(d)>>

NaT == [ok |-> FALSE, y |-> 0, m |-> 0, d |-> 0]

(* pd.to_datetime(errors="coerce") on one cell *)
ToDatetime(cell) ==
  IF /\ cell # NaNCell
     /\ Len(cell) = 10
     /\ cell[5] = "-" /\ cell[8] = "-"
     /\ \A i \in {1, 2, 3, 4, 6, 7, 9, 10} : IsDigit(cell[i])
  THEN LET y == 1000 * DigitVal(cell[1]) + 100 * DigitVal(cell[2])
                + 10 * DigitVal(cell[3]) + DigitVal(cell[4])
           m == 10 * DigitVal(cell[6]) + DigitVal(cell[7])
           d == 10 * DigitVal(cell[9]) + DigitVal(cell[10])
       IN IF ValidDate(y, m, d) THEN [ok |-> TRUE, y |-> y, m |-> m, d |-> d]
          ELSE NaT
  ELSE NaT

(* Series.dt.date on one timestamp: a date, NaT for NaT *)
DtDate(ts) == [y |-> ts.y, m |-> ts.m, d |-> ts.d]

NaTDate == DtDate(NaT)

(* datetime.date comparison *)
DateLE(a, b) ==
  \/ a.y < b.y
  \/ a.y = b.y /\ a.m < b.m
  \/ a.y = b.y /\ a.m = b.m /\ a.d <= b.d

(***************************************************************************)
(* Column operations on a table's rows.                                    *)
(***************************************************************************)
(* df["satisfaction"] = pd.to_numeric(df["satisfaction"], errors="coerce") *)
CoerceSatisfaction(rows) ==
  [i \in DOMAIN rows |->
     [rows[i] EXCEPT !["satisfaction"] = ToNumeric(rows[i]["satisfaction"])]]

(* Mutant: the rows whose satisfaction is not a number are kept. *)
DropNaSatisfactionSkipped(rows) == rows

(* dropna(subset=["satisfaction"]) *)
DropNaSatisfaction(rows) == SelectSeq(rows, LAMBDA r : ~r["satisfaction"].nan)

(* df["satisfaction"] = df["satisfaction"].clip(1, 5) *)
ClipSatisfaction(rows) ==
  [i \in DOMAIN rows |->
     [rows[i] EXCEPT !["satisfaction"] =
        Clip(rows[i]["satisfaction"], SAT_LO, SAT_HI)]]

(* df["date"] = pd.to_datetime(df["date"], errors="coerce") *)
ParseDates(rows) ==
  [i \in DOMAIN rows |-> [rows[i] EXCEPT !["date"] = ToDatetime(rows[i]["date"])]]

(* Mutant: the rows with an unparseable date are kept. *)
DropNaDateSkipped(rows) == rows

(* dropna(subset=["date"]) *)
DropNaDate(rows) == SelectSeq(rows, LAMBDA r : r["date"].ok)

(* df["date"] = df["date"].dt.date *)
DatesOnly(rows) ==
  [i \in DOMAIN rows |-> [rows[i] EXCEPT !["date"] = DtDate(rows[i]["date"])]]

StripText(cell) == Strip(AsStr(cell))

StripRow(r) ==
  [c \in DOMAIN r |-> IF c \in Range(TEXT_COLS) THEN StripText(r[c]) ELSE r[c]]

StripTextCols(rows) == [i \in DOMAIN rows |-> StripRow(rows[i])]

(***************************************************************************)
(* validate_and_clean                                                      *)
(***************************************************************************)
(* Mutant: the last required column is never looked for. *)
MissingButLast(cols) ==
  SelectSeq(SubSeq(EXPECTED_COLS, 1, Len(EXPECTED_COLS) - 1),
            LAMBDA c : c \notin cols)

(* missing = [c for c in EXPECTED_COLS if c not in df.columns] *)
Missing(cols) == SelectSeq(EXPECTED_COLS, LAMBDA c : c \notin cols)

(* Mutant: no copy is made; the first column assignment writes to the     *)
(* caller's table.                                                         *)
ValidateWorkObjectCaller == "caller"

(* The object the column assignments of lines 189-198 write to: the copy   *)
(* made at line 188, not the caller's table.                               *)
ValidateWorkObject == "copy"

Clean(rows) ==
  LET s1 == CoerceSatisfaction(rows)
      s2 == DropNaSatisfaction(s1)
      s3 == ClipSatisfaction(s2)
      s4 == StripTextCols(s3)
      s5 == ParseDates(s4)
      s6 == DropNaDate(s5)
  IN DatesOnly(s6)

(* What the caller's table holds after the call. *)
CallerAfterClean(t) ==
  IF ValidateWorkObject = "copy" THEN t
  ELSE [t EXCEPT !.rows = CoerceSatisfaction(t.rows)]

NoError == [kind |-> "none", names |-> << >>]

Validate ==
  /\ pc = "loaded"
  /\ IF Missing(raw.cols) # << >>
     THEN /\ err' = [kind |-> "ValueError", names |-> Missing(raw.cols)]
          /\ pc' = "schema_error"
          /\ UNCHANGED <<raw, df>>
     ELSE /\ df' = Clean(raw.rows)
          /\ raw' = CallerAfterClean(raw)
          /\ pc' = "validated"
          /\ UNCHANGED err
  /\ UNCHANGED <<sel, filtered, refiltered, kpi, view, gen, look>>

(***************************************************************************)
(* Static knowledge tables and their lookups.                              *)
(***************************************************************************)
None == "<None>"

Stars(n) == [i \in 1..n |-> "*"]

KAI_STAR_SCALE ==
  (3 :> Stars(3) \o <<" ", "KAI Star - Wajib Dikunjungi">>)
  @@ (2 :> Stars(2) \o <<" ", "KAI Star - Sangat Direkomendasikan">>)
  @@ (1 :> Stars(1) \o <<" ", "KAI Star - Direkomendasikan">>)

ROUTE_TO_DEST ==
  [r \in {"Jakarta-Bandung", "Jakarta-Yogyakarta", "Jakarta-Surabaya",
          "Bandung-Yogyakarta", "Yogyakarta-Surabaya", "Surabaya-Malang"} |->
     CASE r = "Jakarta-Bandung" -> "Bandung"
       [] r = "Jakarta-Yogyakarta" -> "Yogyakarta"
       [] r = "Jakarta-Surabaya" -> "Surabaya"
       [] r = "Bandung-Yogyakarta" -> "Yogyakarta"
       [] r = "Yogyakarta-Surabaya" -> "Surabaya"
       [] r = "Surabaya-Malang" -> "Malang"]

Rec(p, k, c, w) == [place |-> p, kai_star |-> k, category |-> c, why |-> w]

KAI_TOURISM_RECS ==
  [c \in {"Bandung", "Yogyakarta", "Surabaya", "Malang"} |->
     CASE c = "Bandung" ->
            <<Rec("Kawah Putih Ciwidey", 3, "Nature",
                  "Pengalaman alam unik dan sangat memorable."),
              Rec("Jalan Braga", 2, "Heritage",
                  "Ikonik dan mudah dijangkau wisatawan."),
              Rec("Gedung Sate", 2, "Landmark",
                  "Landmark kota dengan nilai sejarah.")>>
       [] c = "Yogyakarta" ->
            <<Rec("Candi Prambanan", 3, "UNESCO Heritage",
                  "Destinasi kelas dunia dan bernilai budaya tinggi."),
              Rec("Keraton Yogyakarta", 3, "Culture",
                  "Pengalaman budaya autentik."),
              Rec("Malioboro", 2, "City Experience",
                  "Pusat aktivitas wisata kota.")>>
       [] c = "Surabaya" ->
            <<Rec("Tugu Pahlawan", 2, "History", "Ikon sejarah nasional."),
              Rec("Kota Tua (Kembang Jepun)", 2, "Heritage",
                  "Area heritage yang mudah dijelajahi."),
              Rec("House of Sampoerna", 1, "Museum",
                  "Museum populer untuk kunjungan singkat.")>>
       [] c = "Malang" ->
            <<Rec("Bromo (akses via Malang)", 3, "Nature",
                  "Destinasi internasional dengan pengalaman ikonik."),
              Rec("Kampung Warna-Warni Jodipan", 2, "City Spot",
                  "Spot visual yang menarik wisatawan."),
              Rec("Alun-Alun Malang", 1, "City Experience",
                  "Ruang publik nyaman untuk wisata santai.")>>]

(* Coordinates in ten-thousandths of a degree. *)
CITY_COORDS ==
  [c \in {"Bandung", "Yogyakarta", "Surabaya", "Malang"} |->
     CASE c = "Bandung" -> [lat |-> -69175, lon |-> 1076191]
       [] c = "Yogyakarta" -> [lat |-> -77956, lon |-> 1103695]
       [] c = "Surabaya" -> [lat |-> -72575, lon |-> 1127521]
       [] c = "Malang" -> [lat |-> -79666, lon |-> 1126326]]

Stop(t, a) == [Time |-> t, Activity |-> a]

KAI_DAY_ITINERARY ==
  [c \in {"Bandung", "Yogyakarta", "Surabaya", "Malang"} |->
     CASE c = "Bandung" ->
            <<Stop("08:00", "Sarapan & coffee stop"), Stop("09:30", "Gedung Sate"),
              Stop("11:30", "Jalan Braga (city walk)"), Stop("13:00", "Makan siang"),
              Stop("15:00", "Kawah Putih Ciwidey"), Stop("19:00", "Makan malam")>>
       [] c = "Yogyakarta" ->
            <<Stop("08:00", "Sarapan"), Stop("09:00", "Keraton Yogyakarta"),
              Stop("12:00", "Makan siang"), Stop("14:00", "Candi Prambanan"),
              Stop("19:00", "Malioboro")>>
       [] c = "Surabaya" ->
            <<Stop("08:00", "Sarapan"), Stop("09:30", "Tugu Pahlawan"),
              Stop("12:00", "Makan siang"),
              Stop("14:00", "Kota Tua (Kembang Jepun)"),
              Stop("16:30", "House of Sampoerna")>>
       [] c = "Malang" ->
            <<Stop("08:00", "Sarapan"), Stop("09:30", "Alun-Alun Malang"),
              Stop("11:00", "Kampung Warna-Warni Jodipan"),
              Stop("13:00", "Makan siang"),
              Stop("15:00", "Persiapan trip Bromo (opsional)")>>]

(* dict.get(key, default) *)
DictGet(d, key, default) == IF key \in DOMAIN d THEN d[key] ELSE default

(* Mutant: subscripting instead of get; an absent key raises KeyError. *)
GetDestinationCitySubscript(route) ==
  IF route \in DOMAIN ROUTE_TO_DEST THEN ROUTE_TO_DEST[route] ELSE "<KeyError>"

GetDestinationCity(route) == DictGet(ROUTE_TO_DEST, route, None)

(* Python compares strings by code point, character by character.  The     *)
(* leading characters of each place name, which tell the names apart.      *)
Spell(name) ==
  CASE name = "Kawah Putih Ciwidey" -> <<"K", "a", "w">>
    [] name = "Jalan Braga" -> <<"J", "a", "l">>
    [] name = "Gedung Sate" -> <<"G", "e", "d">>
    [] name = "Candi Prambanan" -> <<"C", "a", "n">>
    [] name = "Keraton Yogyakarta" -> <<"K", "e", "r">>
    [] name = "Malioboro" -> <<"M", "a", "l">>
    [] name = "Tugu Pahlawan" -> <<"T", "u", "g">>
    [] name = "Kota Tua (Kembang Jepun)" -> <<"K", "o", "t">>
    [] name = "House of Sampoerna" -> <<"H", "o", "u">>
    [] name = "Bromo (akses via Malang)" -> <<"B", "r", "o">>
    [] name = "Kampung Warna-Warni Jodipan" -> <<"K", "a", "m">>
    [] name = "Alun-Alun Malang" -> <<"A", "l", "u">>

Upper ==
  <<"A", "B", "C", "D", "E", "F", "G", "H", "I", "J", "K", "L", "M",
    "N", "O", "P", "Q", "R", "S", "T", "U", "V", "W", "X", "Y", "Z">>

Lower ==
  <<"a", "b", "c", "d", "e", "f", "g", "h", "i", "j", "k", "l", "m",
    "n", "o", "p", "q", "r", "s", "t", "u", "v", "w", "x", "y", "z">>

Ord(ch) ==
  IF ch \in Range(Upper) THEN 64 + (CHOOSE i \in 1..26 : Upper[i] = ch)
  ELSE 96 + (CHOOSE i \in 1..26 : Lower[i] = ch)

RECURSIVE SeqLess(_, _)
SeqLess(a, b) ==
  IF b = << >> THEN FALSE
  ELSE IF a = << >> THEN TRUE
  ELSE IF Ord(Head(a)) # Ord(Head(b)) THEN Ord(Head(a)) < Ord(Head(b))
  ELSE SeqLess(Tail(a), Tail(b))

StrLess(a, b) == SeqLess(Spell(a), Spell(b))

(* sort_values(["kai_star", "Tempat"], ascending=[False, True]): whether   *)
(* row a sorts strictly before row b.                                      *)
(* Mutant: both sort keys ascending. *)
StarRowBeforeAscending(a, b) ==
  \/ a.kai_star < b.kai_star
  \/ a.kai_star = b.kai_star /\ StrLess(a.Tempat, b.Tempat)

StarRowBefore(a, b) ==
  \/ a.kai_star > b.kai_star
  \/ a.kai_star = b.kai_star /\ StrLess(a.Tempat, b.Tempat)

(* A stable sort: each row goes after the rows that do not sort after it. *)
RECURSIVE InsertRow(_, _)
InsertRow(sorted, r) ==
  IF sorted = << >> THEN <<r>>
  ELSE IF StarRowBefore(r, Head(sorted)) THEN <<r>> \o sorted
  ELSE <<Head(sorted)>> \o InsertRow(Tail(sorted), r)

RECURSIVE SortRows(_)
SortRows(rows) ==
  IF rows = << >> THEN << >>
  ELSE InsertRow(SortRows(SubSeq(rows, 1, Len(rows) - 1)), rows[Len(rows)])

Frame(cols, rows) == [cols |-> cols, rows |-> rows]

NoFrame == Frame(<< >>, << >>)

Dash == <<"-">>

STAR_COLS == <<"KAI Star", "Tempat", "Kategori", "Alasan singkat">>

StarRow(it) ==
  [KAIStar |-> KAI_STAR_SCALE[it.kai_star], Tempat |-> it.place,
   Kategori |-> it.category, Alasan |-> it.why, kai_star |-> it.kai_star]

DropKaiStar(r) ==
  [KAIStar |-> r.KAIStar, Tempat |-> r.Tempat, Kategori |-> r.Kategori,
   Alasan |-> r.Alasan]

BuildKaiStarTable(city) ==
  LET items == DictGet(KAI_TOURISM_RECS, city, << >>)
  IN IF items = << >> THEN Frame(STAR_COLS, << >>)
     ELSE LET rows == [i \in DOMAIN items |-> StarRow(items[i])]
              sorted == SortRows(rows)
          IN Frame(STAR_COLS, [i \in DOMAIN sorted |-> DropKaiStar(sorted[i])])

(* s.count(star character) *)
RECURSIVE CountStars(_)
CountStars(s) ==
  IF s = << >> THEN 0
  ELSE (IF Head(s) = "*" THEN 1 ELSE 0) + CountStars(Tail(s))

(* Page 1, lines 359-360: keep the rows with at least min_star stars. *)
MinStarFilter(rec_df, min_star) ==
  Frame(rec_df.cols,
        SelectSeq(rec_df.rows, LAMBDA r : CountStars(r.KAIStar) >= min_star))

MAP_COLS == <<"city", "lat", "lon">>

BuildCityMapDf(city) ==
  IF city \notin DOMAIN CITY_COORDS THEN Frame(MAP_COLS, << >>)
  ELSE Frame(MAP_COLS,
             <<[city |-> city, lat |-> CITY_COORDS[city].lat,
                lon |-> CITY_COORDS[city].lon]>>)

ITI_COLS == <<"Time", "Activity">>

BuildItineraryDf(city) ==
  LET items == DictGet(KAI_DAY_ITINERARY, city, << >>)
  IN IF items # << >> THEN Frame(ITI_COLS, items) ELSE Frame(ITI_COLS, << >>)

(***************************************************************************)
(* Input tables.                                                           *)
(***************************************************************************)
T(w) == <<w>>

RowPool ==
  << [date |-> IsoFormat(2025, 1, 5), country |-> T("Japan"),
      language |-> T("Japanese"), route |-> T("Jakarta-Bandung"),
      purpose |-> T("Leisure"), ticket_class |-> T("Economy"),
      touchpoint |-> T("Station"), satisfaction |-> FloatCell(350),
      positive_feedback |-> T("Scenic route"),
      pain_point |-> T("Wayfinding signage")],
     [date |-> IsoFormat(2025, 2, 28), country |-> <<" ", "Japan", " ">>,
      language |-> T("Japanese"), route |-> T("Bandung-Semarang"),
      purpose |-> T("Business"), ticket_class |-> T("Executive"),
      touchpoint |-> T("On-train"), satisfaction |-> FloatCell(730),
      positive_feedback |-> T("Easy booking"),
      pain_point |-> T("Schedule clarity")],
     [date |-> IsoFormat(2025, 12, 28), country |-> T("USA"),
      language |-> NaNCell, route |-> T("Jakarta-Bandung"),
      purpose |-> T("Business"), ticket_class |-> T("Executive"),
      touchpoint |-> T("Station"), satisfaction |-> StrNumCell(50),
      positive_feedback |-> T("Clean station"),
      pain_point |-> T("Wayfinding signage")],
     [date |-> IsoFormat(2025, 2, 30), country |-> T("USA"),
      language |-> T("English"), route |-> T("Surabaya-Malang"),
      purpose |-> T("Family"), ticket_class |-> T("Luxury/Pariwisata"),
      touchpoint |-> T("On-train"), satisfaction |-> FloatCell(420),
      positive_feedback |-> T("Friendly staff"),
      pain_point |-> T("Payment limitations")],
     [date |-> IsoFormat(2025, 6, 15), country |-> T("Germany"),
      language |-> T("German"), route |-> T("Jakarta-Bandung"),
      purpose |-> T("Business"), ticket_class |-> T("Executive"),
      touchpoint |-> T("Website/App"), satisfaction |-> StrTextCell,
      positive_feedback |-> T("Easy booking"),
      pain_point |-> T("Ticketing confusion")],
     [date |-> NaNCell, country |-> T("Japan"),
      language |-> T("Japanese"), route |-> T("Jakarta-Bandung"),
      purpose |-> T("Leisure"), ticket_class |-> T("Economy"),
      touchpoint |-> T("Station"), satisfaction |-> NaNSatCell,
      positive_feedback |-> T("Scenic route"),
      pain_point |-> T("Wayfinding signage")],
     [date |-> IsoFormat(2025, 6, 15), country |-> <<" ">>,
      language |-> << >>, route |-> <<"Surabaya-Malang", " ">>,
      purpose |-> T("Backpacking"), ticket_class |-> T("Economy"),
      touchpoint |-> T("Customer Service"), satisfaction |-> FloatCell(460),
      positive_feedback |-> NaNCell,
      pain_point |-> T("Language barrier at station")],
     [date |-> IsoFormat(2024, 2, 29), country |-> NaNCell,
      language |-> T("English"), route |-> T("Jakarta-Bandung"),
      purpose |-> T("Leisure"), ticket_class |-> T("Economy"),
      touchpoint |-> T("Station"), satisfaction |-> StrNumCell(405),
      positive_feedback |-> T("Scenic route"),
      pain_point |-> T("Wayfinding signage")] >>

(* The rows of the tables a whole pass is explored on. *)
PassPool == {RowPool[1], RowPool[2], RowPool[3], RowPool[4], RowPool[7]}

(* The column sets of those tables: complete, or without "satisfaction". *)
PassCols == {Range(EXPECTED_COLS), Range(EXPECTED_COLS) \ {"satisfaction"}}

(* The rows and the dates the filter alone is explored on. *)
FilterPool == {RowPool[1], RowPool[2], RowPool[3]}

FilterDates ==
  {[y |-> 2025, m |-> 1, d |-> 5], [y |-> 2025, m |-> 2, d |-> 28],
   [y |-> 2025, m |-> 6, d |-> 15], [y |-> 2025, m |-> 12, d |-> 28]}

ExtraCell == T("x")

(* A pool row as a row of a table with the columns cols. *)
Project(r, cols) ==
  [c \in cols |-> IF c \in DOMAIN r THEN r[c] ELSE ExtraCell]

Table(cols, rows) ==
  [cols |-> cols, rows |-> [i \in DOMAIN rows |-> Project(rows[i], cols)]]

AllCols == Range(EXPECTED_COLS)

NoKpi ==
  [total |-> 0, avg_sat |-> <<0, 1>>, top_country |-> {},
   top_route |-> {}, low_sat_share |-> <<0, 1>>]

NoSel ==
  [country |-> {}, route |-> {}, ticket_class |-> {}, purpose |-> {},
   start |-> NaTDate, end |-> NaTDate]

NoRecs == [shown |-> FALSE, worst_touch |-> {}, worst_route |-> {}, top_pain |-> {}]

NoTourism ==
  [shown |-> FALSE, primary_route |-> Dash, dest_city |-> None, min_star |-> 0,
   map_df |-> NoFrame, rec_df |-> NoFrame, shown_df |-> NoFrame,
   iti_df |-> NoFrame]

NoInsight ==
  [note |-> "", total |-> 0, avg_sat |-> <<0, 1>>, top_country |-> {},
   top_route |-> {}, worst_touch |-> {}, worst_route |-> {}, top_pain |-> {}]

NoCharts == [shown |-> FALSE, counts |-> << >>, trend |-> << >>]

NoView ==
  [page |-> "none", recs |-> NoRecs, tourism |-> NoTourism,
   insight |-> NoInsight, charts |-> NoCharts]

NoGen == [n |-> 0, rows |-> << >>, bases |-> << >>]

NoLook == [q |-> "none"]

Idle ==
  /\ df = << >>
  /\ err = NoError
  /\ sel = NoSel
  /\ filtered = << >>
  /\ refiltered = << >>
  /\ kpi = NoKpi
  /\ view = NoView
  /\ gen = NoGen
  /\ look = NoLook

(***************************************************************************)
(* The lookups applied to known and unknown keys.                          *)
(***************************************************************************)
QueryRoutes == DOMAIN ROUTE_TO_DEST \cup {"unknown-route", "Bandung-Semarang"}

QueryCities == DOMAIN KAI_TOURISM_RECS \cup {"Semarang", None}

MinStarChoices == {1, 2, 3}

InitLookup ==
  /\ pc = "lookup"
  /\ raw = Table({}, << >>)
  /\ df = << >>
  /\ err = NoError
  /\ sel = NoSel
  /\ filtered = << >>
  /\ refiltered = << >>
  /\ kpi = NoKpi
  /\ view = NoView
  /\ gen = NoGen
  /\ \E r \in QueryRoutes, c \in QueryCities, m \in MinStarChoices :
       look = [q |-> "asked", route |-> r, city |-> c, min_star |-> m,
               dest |-> None, rec_df |-> NoFrame, shown |-> NoFrame,
               map_df |-> NoFrame, iti_df |-> NoFrame]

LookDestination ==
  /\ pc = "lookup" /\ look.q = "asked"
  /\ look' = [look EXCEPT !.q = "dest", !.dest = GetDestinationCity(look.route)]
  /\ UNCHANGED <<pc, raw, df, err, sel, filtered, refiltered, kpi, view, gen>>

LookStarTable ==
  /\ pc = "lookup" /\ look.q = "dest"
  /\ look' = [look EXCEPT !.q = "table", !.rec_df = BuildKaiStarTable(look.city)]
  /\ UNCHANGED <<pc, raw, df, err, sel, filtered, refiltered, kpi, view, gen>>

LookMinStar ==
  /\ pc = "lookup" /\ look.q = "table"
  /\ look' = [look EXCEPT !.q = "shown",
                          !.shown = MinStarFilter(look.rec_df, look.min_star)]
  /\ UNCHANGED <<pc, raw, df, err, sel, filtered, refiltered, kpi, view, gen>>

LookMap ==
  /\ pc = "lookup" /\ look.q = "shown"
  /\ look' = [look EXCEPT !.q = "map", !.map_df = BuildCityMapDf(look.city)]
  /\ UNCHANGED <<pc, raw, df, err, sel, filtered, refiltered, kpi, view, gen>>

LookItinerary ==
  /\ pc = "lookup" /\ look.q = "map"
  /\ look' = [look EXCEPT !.q = "done", !.iti_df = BuildItineraryDf(look.city)]
  /\ UNCHANGED <<pc, raw, df, err, sel, filtered, refiltered, kpi, view, gen>>

NextLookup ==
  \/ LookDestination
  \/ LookStarTable
  \/ LookMinStar
  \/ LookMap
  \/ LookItinerary

SpecLookup == InitLookup /\ [][NextLookup]_vars

(***************************************************************************)
(* The sidebar filters and the filtered view (lines 239-269).              *)
(***************************************************************************)
Unique(rows, c) == {rows[i][c] : i \in DOMAIN rows}

MinDate(rows) ==
  CHOOSE a \in Unique(rows, "date") : \A b \in Unique(rows, "date") : DateLE(a, b)

MaxDate(rows) ==
  CHOOSE a \in Unique(rows, "date") : \A b \in Unique(rows, "date") : DateLE(b, a)

(* Mutant: the end of the date range is exclusive. *)
MaskEndExclusive(r, s) ==
  /\ r.country \in s.country
  /\ r.route \in s.route
  /\ r.ticket_class \in s.ticket_class
  /\ r.purpose \in s.purpose
  /\ DateLE(s.start, r.date)
  /\ DateLE(r.date, s.end) /\ r.date # s.end

(* The boolean mask of lines 263-268, for one row. *)
Mask(r, s) ==
  /\ r.country \in s.country
  /\ r.route \in s.route
  /\ r.ticket_class \in s.ticket_class
  /\ r.purpose \in s.purpose
  /\ DateLE(s.start, r.date)
  /\ DateLE(r.date, s.end)

(* Mutant: the mask is computed on the global df and applied by position. *)
FilteredByGlobalMask(t, s) ==
  LET keep == {i \in DOMAIN t : i \in DOMAIN df /\ Mask(df[i], s)}
      kept[i \in 0..Len(t)] ==
        IF i = 0 THEN << >>
        ELSE IF i \in keep THEN Append(kept[i - 1], t[i]) ELSE kept[i - 1]
  IN kept[Len(t)]

(* df[mask].copy() *)
Filtered(t, s) == SelectSeq(t, LAMBDA r : Mask(r, s))

(* What st.date_input returns: a pair start <= end within [min, max], or,  *)
(* while the user has picked only the start, a 1-tuple.                    *)
DateInputs(rows) ==
  {<<a, b>> : a, b \in Unique(rows, "date")} \cup {<<a>> : a \in Unique(rows, "date")}

(* lines 257-260 *)
ResolveRange(date_range, min_date, max_date) ==
  IF Len(date_range) = 2 THEN date_range ELSE <<min_date, max_date>>

StreamlitError == [kind |-> "StreamlitAPIException", names |-> << >>]

IndexError == [kind |-> "IndexError", names |-> << >>]

(* Lines 239-260.  The multiselects return subsets of the values present.  *)
(* On an empty table df["date"].min() is NaN, which st.date_input rejects  *)
(* (it takes dates only) by raising StreamlitAPIException.                 *)
Widgets ==
  /\ pc = "validated"
  /\ IF df = << >>
     THEN /\ err' = StreamlitError
          /\ pc' = "crashed"
          /\ UNCHANGED sel
     ELSE /\ \E sc \in SUBSET Unique(df, "country"), sr \in SUBSET Unique(df, "route"),
                sk \in SUBSET Unique(df, "ticket_class"),
                sp \in SUBSET Unique(df, "purpose"), dr \in DateInputs(df) :
               /\ Len(dr) = 2 => DateLE(dr[1], dr[2])
               /\ LET range == ResolveRange(dr, MinDate(df), MaxDate(df))
                  IN sel' = [country |-> sc, route |-> sr, ticket_class |-> sk,
                             purpose |-> sp, start |-> range[1], end |-> range[2]]
          /\ pc' = "selected"
          /\ UNCHANGED err
  /\ UNCHANGED <<raw, df, filtered, refiltered, kpi, view, gen, look>>

(***************************************************************************)
(* Aggregations.  A mean is the pair <<sum, count>>.  An operation that    *)
(* ends in .index[0] is given as the set of values it may return: the      *)
(* values tied for first place (which of them comes first is left to the   *)
(* library), the empty set where .index[0] raises IndexError.              *)
(***************************************************************************)
RECURSIVE SumSat(_)
SumSat(rows) ==
  IF rows = << >> THEN 0 ELSE Head(rows).satisfaction.n + SumSat(Tail(rows))

Count(rows, c, v) == Cardinality({i \in DOMAIN rows : rows[i][c] = v})

(* value_counts().index[0] *)
TopValues(rows, c) ==
  {v \in Unique(rows, c) : \A w \in Unique(rows, c) : Count(rows, c, v) >= Count(rows, c, w)}

Group(rows, c, v) == SelectSeq(rows, LAMBDA r : r[c] = v)

MeanLE(a, b) == SumSat(a) * Len(b) <= SumSat(b) * Len(a)

(* groupby(c)["satisfaction"].mean().sort_values().index[0] *)
WorstGroups(rows, c) ==
  {v \in Unique(rows, c) :
     \A w \in Unique(rows, c) : MeanLE(Group(rows, c, v), Group(rows, c, w))}

(* value_counts() as a table: value -> count *)
ValueCounts(rows, c) == [v \in Unique(rows, c) |-> Count(rows, c, v)]

LOW_SAT == 400

CountLow(rows) ==
  Cardinality({i \in DOMAIN rows : rows[i].satisfaction.n < LOW_SAT})

(* The guards `if total` / `total == 0` of lines 273-276, 299, 323, 379, 436 *)
HasData(total) == total # 0

(* Lines 272-276 *)
CommonMetrics(f) ==
  LET total == Len(f)
  IN [total |-> total,
      avg_sat |-> IF HasData(total) THEN <<SumSat(f), total>> ELSE <<0, 1>>,
      top_country |-> IF HasData(total) THEN TopValues(f, "country") ELSE {Dash},
      top_route |-> IF HasData(total) THEN TopValues(f, "route") ELSE {Dash},
      low_sat_share |-> IF HasData(total) THEN <<100 * CountLow(f), total>>
                        ELSE <<0, 1>>]

(* Lines 262-276: the filtered view and the common metrics. *)
ComputeFiltered ==
  /\ pc = "selected"
  /\ LET f == Filtered(df, sel)
         k == CommonMetrics(f)
     IN /\ filtered' = f
        /\ kpi' = k
        /\ IF k.top_country = {} \/ k.top_route = {}
           THEN err' = IndexError /\ pc' = "crashed"
           ELSE pc' = "metrics" /\ UNCHANGED err
  /\ UNCHANGED <<raw, df, sel, refiltered, view, gen, look>>

(***************************************************************************)
(* Page 1 (lines 281-415) and page 2 (lines 420-503).                      *)
(***************************************************************************)
(* Lines 302-304 and 382-384 *)
Recommendations(f) ==
  [shown |-> TRUE, worst_touch |-> WorstGroups(f, "touchpoint"),
   worst_route |-> WorstGroups(f, "route"), top_pain |-> TopValues(f, "pain_point")]

RecsRaise(r) == r.worst_touch = {} \/ r.worst_route = {} \/ r.top_pain = {}

(* The text of a cell as a dictionary key. *)
KeyOf(text) == IF Len(text) = 1 THEN text[1] ELSE "<no key>"

(* Lines 298-318 *)
Page1Recs ==
  /\ pc = "metrics"
  /\ IF ~HasData(kpi.total)
     THEN /\ view' = [view EXCEPT !.page = "Page 1", !.recs = NoRecs]
          /\ pc' = "p1_recs"
          /\ UNCHANGED err
     ELSE LET r == Recommendations(filtered)
          IN IF RecsRaise(r)
             THEN /\ err' = IndexError
                  /\ pc' = "crashed"
                  /\ view' = [view EXCEPT !.page = "Page 1"]
             ELSE /\ view' = [view EXCEPT !.page = "Page 1", !.recs = r]
                  /\ pc' = "p1_recs"
                  /\ UNCHANGED err
  /\ UNCHANGED <<raw, df, sel, filtered, refiltered, kpi, gen, look>>

(* Lines 326-369 for one primary route and one minimum star. *)
Tourism(primary_route, min_star) ==
  LET dest_city == GetDestinationCity(KeyOf(primary_route))
      rec_df == IF dest_city = None THEN NoFrame ELSE BuildKaiStarTable(dest_city)
      listed == dest_city # None /\ rec_df.rows # << >>
  IN [shown |-> TRUE, primary_route |-> primary_route, dest_city |-> dest_city,
      min_star |-> min_star,
      map_df |-> IF dest_city = None \/ dest_city \notin DOMAIN CITY_COORDS
                 THEN NoFrame ELSE BuildCityMapDf(dest_city),
      rec_df |-> rec_df,
      shown_df |-> IF listed THEN MinStarFilter(rec_df, min_star) ELSE NoFrame,
      iti_df |-> IF listed THEN BuildItineraryDf(dest_city) ELSE NoFrame]

(* Lines 322-374 *)
Page1Tourism ==
  /\ pc = "p1_recs"
  /\ IF ~HasData(kpi.total)
     THEN /\ view' = [view EXCEPT !.tourism = NoTourism]
          /\ pc' = "p1_tourism"
          /\ UNCHANGED err
     ELSE IF TopValues(filtered, "route") = {}
     THEN /\ err' = IndexError
          /\ pc' = "crashed"
          /\ UNCHANGED view
     ELSE /\ \E pr \in TopValues(filtered, "route"), ms \in MinStarChoices :
               view' = [view EXCEPT !.tourism = Tourism(pr, ms)]
          /\ pc' = "p1_tourism"
          /\ UNCHANGED err
  /\ UNCHANGED <<raw, df, sel, filtered, refiltered, kpi, gen, look>>

(* Lines 378-393; the value of "Avg satisfaction" is left unrounded. *)
Insight(f, k) ==
  LET r == Recommendations(f)
  IN [note |-> "", total |-> k.total, avg_sat |-> k.avg_sat,
      top_country |-> k.top_country, top_route |-> k.top_route,
      worst_touch |-> r.worst_touch, worst_route |-> r.worst_route,
      top_pain |-> r.top_pain]

(* Lines 378-415 *)
Page1Export ==
  /\ pc = "p1_tourism"
  /\ IF ~HasData(kpi.total)
     THEN /\ view' = [view EXCEPT !.insight = [NoInsight EXCEPT !.note = "No data"]]
          /\ pc' = "done"
          /\ UNCHANGED err
     ELSE IF RecsRaise(Recommendations(filtered))
     THEN /\ err' = IndexError
          /\ pc' = "crashed"
          /\ UNCHANGED view
     ELSE /\ view' = [view EXCEPT !.insight = Insight(filtered, kpi)]
          /\ pc' = "done"
          /\ UNCHANGED err
  /\ UNCHANGED <<raw, df, sel, filtered, refiltered, kpi, gen, look>>

RECURSIVE SortedDates(_)
SortedDates(S) ==
  IF S = {} THEN << >>
  ELSE LET a == CHOOSE a \in S : \A b \in S : DateLE(a, b)
       IN <<a>> \o SortedDates(S \ {a})

(* Line 497: the daily mean satisfaction, by date *)
Trend(f) ==
  LET days == SortedDates(Unique(f, "date"))
  IN [i \in DOMAIN days |->
        [date |-> days[i],
         satisfaction |-> <<SumSat(Group(f, "date", days[i])),
                            Len(Group(f, "date", days[i]))>>]]

CHART_COLS ==
  <<"country", "purpose", "route", "ticket_class", "pain_point", "positive_feedback">>

(* Lines 440-498 *)
Charts(f) ==
  [shown |-> TRUE,
   counts |-> [i \in DOMAIN CHART_COLS |-> ValueCounts(f, CHART_COLS[i])],
   trend |-> Trend(f)]

(* Lines 420-503: with no data the page stops after the KPI row. *)
Page2 ==
  /\ pc = "metrics"
  /\ IF ~HasData(kpi.total)
     THEN view' = [view EXCEPT !.page = "Page 2", !.charts = NoCharts]
     ELSE view' = [view EXCEPT !.page = "Page 2", !.charts = Charts(filtered)]
  /\ pc' = "done"
  /\ UNCHANGED <<raw, df, err, sel, filtered, refiltered, kpi, gen, look>>

(***************************************************************************)
(* One pass of the script over an uploaded table.                          *)
(***************************************************************************)
Init ==
  /\ pc = "loaded"
  /\ \E cols \in PassCols, rows \in SeqsUpTo(PassPool, MaxRows) :
       raw = Table(cols, rows)
  /\ Idle

Next ==
  \/ Validate
  \/ Widgets
  \/ ComputeFiltered
  \/ Page1Recs
  \/ Page1Tourism
  \/ Page1Export
  \/ Page2

Spec == Init /\ [][Next]_vars

(***************************************************************************)
(* The filter alone, applied to a validated table and applied again to its *)
(* own result, for every selection over the values and dates of the pool.  *)
(***************************************************************************)
FilterTables == {Clean(Table(AllCols, rows).rows) : rows \in SeqsUpTo(FilterPool, MaxRows)}

PoolValues(c) == {StripText(r[c]) : r \in FilterPool}

InitFilter ==
  /\ pc = "filter"
  /\ raw = Table({}, << >>)
  /\ df \in FilterTables
  /\ err = NoError
  /\ \E sc \in SUBSET PoolValues("country"), sr \in SUBSET PoolValues("route"),
        sk \in SUBSET PoolValues("ticket_class"),
        sp \in SUBSET PoolValues("purpose"), a \in FilterDates, b \in FilterDates :
       sel = [country |-> sc, route |-> sr, ticket_class |-> sk, purpose |-> sp,
              start |-> a, end |-> b]
  /\ filtered = << >>
  /\ refiltered = << >>
  /\ kpi = NoKpi
  /\ view = NoView
  /\ gen = NoGen
  /\ look = NoLook

ApplyFilter ==
  /\ pc = "filter"
  /\ filtered' = Filtered(df, sel)
  /\ pc' = "filtered"
  /\ UNCHANGED <<raw, df, err, sel, refiltered, kpi, view, gen, look>>

ApplyFilterAgain ==
  /\ pc = "filtered"
  /\ refiltered' = Filtered(filtered, sel)
  /\ pc' = "refiltered"
  /\ UNCHANGED <<raw, df, err, sel, filtered, kpi, view, gen, look>>

NextFilter == ApplyFilter \/ ApplyFilterAgain

SpecFilter == InitFilter /\ [][NextFilter]_vars

(***************************************************************************)
(* make_dummy_data (lines 148-181), then validation, then the filtered     *)
(* view for a choice of ticket classes with every other filter left at its *)
(* default.                                                                *)
(***************************************************************************)
countries == <<"Japan", "Australia", "Germany", "France", "Singapore", "Malaysia", "USA">>

languages ==
  [c \in Range(countries) |->
     CASE c = "Japan" -> "Japanese"
       [] c = "Germany" -> "German"
       [] c = "France" -> "French"
       [] OTHER -> "English"]

routes ==
  <<"Jakarta-Bandung", "Jakarta-Yogyakarta", "Jakarta-Surabaya",
    "Bandung-Yogyakarta", "Yogyakarta-Surabaya", "Surabaya-Malang">>

purposes == <<"Leisure", "Business", "Family", "Backpacking">>

classes == <<"Economy", "Executive", "Luxury/Pariwisata">>

touchpoints == <<"Website/App", "Station", "On-train", "Customer Service">>

pains ==
  <<"Language barrier at station", "Wayfinding signage", "Ticketing confusion",
    "Payment limitations", "Schedule clarity">>

positives ==
  <<"On-time departure", "Comfortable seating", "Easy booking", "Clean station",
    "Friendly staff", "Scenic route">>

YEAR == 2025

(* random.randint(1, 12) *)
MonthRange == 1..12

(* Mutant: days drawn up to 31. *)
DayRangeTo31 == 1..31

(* random.randint(1, 28) *)
DayRange == 1..28

(* Mutant: the comparison with "Executive" never matches the drawn class,  *)
(* so Executive falls to the last branch.                                  *)
BaseExecutiveMisspelt(cls) == IF cls = "Economy" THEN 405 ELSE 455

(* line 167 *)
Base(cls) == IF cls = "Economy" THEN 405 ELSE (IF cls = "Executive" THEN 435 ELSE 455)

(* max(1, min(5, x)), then round(x, 2): hundredths stay hundredths *)
Clamp(x) == Max2(100, Min2(500, x))

(* The outcomes of the random draws that are explored: for the month and   *)
(* the day the ends of their ranges and February's last drawn day; for the *)
(* Gaussian deviation one far below the mean and one just above it; every  *)
(* ticket class; and for the other uniform choices the k-th element of     *)
(* each list, k one of two indices.                                        *)
SetMin(S) == CHOOSE x \in S : \A y \in S : x <= y

SetMax(S) == CHOOSE x \in S : \A y \in S : x >= y

DateDraws ==
  {<<SetMin(MonthRange), SetMin(DayRange)>>, <<2, SetMax(DayRange)>>,
   <<SetMax(MonthRange), SetMax(DayRange)>>}

GaussDraws == {-400, 30}

OtherDraws == {1, 7}

Pick(list, k) == list[((k - 1) % Len(list)) + 1]

DummyRow(k, cls, m, d, g) ==
  LET c == Pick(countries, k)
  IN [date |-> IsoFormat(YEAR, m, d),
      country |-> T(c),
      language |-> T(DictGet(languages, c, "English")),
      route |-> T(Pick(routes, k)),
      purpose |-> T(Pick(purposes, k)),
      ticket_class |-> T(cls),
      touchpoint |-> T(Pick(touchpoints, k)),
      satisfaction |-> FloatCell(Clamp(Base(cls) + g)),
      positive_feedback |-> T(Pick(positives, k)),
      pain_point |-> T(Pick(pains, k))]

DateValueError == [kind |-> "ValueError: day is out of range for month", names |-> << >>]

(* One iteration of the loop of lines 163-180. *)
GenRow ==
  /\ pc = "generating"
  /\ Len(gen.rows) < gen.n
  /\ \E k \in OtherDraws, cls \in Range(classes), md \in DateDraws, g \in GaussDraws :
       IF ValidDate(YEAR, md[1], md[2])
       THEN /\ gen' = [gen EXCEPT !.rows = Append(@, DummyRow(k, cls, md[1], md[2], g)),
                                  !.bases = Append(@, Base(cls))]
            /\ UNCHANGED <<pc, err>>
       ELSE /\ err' = DateValueError
            /\ pc' = "crashed"
            /\ UNCHANGED gen
  /\ UNCHANGED <<raw, df, sel, filtered, refiltered, kpi, view, look>>

(* line 181: pd.DataFrame(rows) *)
GenReturn ==
  /\ pc = "generating"
  /\ Len(gen.rows) = gen.n
  /\ raw' = Table(AllCols, gen.rows)
  /\ pc' = "loaded"
  /\ UNCHANGED <<df, err, sel, filtered, refiltered, kpi, view, gen, look>>

ClassChoices == {{T("Luxury")}, {T("Luxury/Pariwisata")}, {T("Economy"), T("Executive")}}

(* Lines 239-269 with only the ticket-class multiselect changed. *)
FilterByClass ==
  /\ pc = "validated"
  /\ df # << >>
  /\ \E sk \in ClassChoices :
       LET s == [country |-> Unique(df, "country"), route |-> Unique(df, "route"),
                 ticket_class |-> sk, purpose |-> Unique(df, "purpose"),
                 start |-> MinDate(df), end |-> MaxDate(df)]
       IN /\ sel' = s
          /\ filtered' = Filtered(df, s)
  /\ pc' = "class_filtered"
  /\ UNCHANGED <<raw, df, err, refiltered, kpi, view, gen, look>>

InitGen ==
  /\ pc = "generating"
  /\ raw = Table({}, << >>)
  /\ df = << >>
  /\ err = NoError
  /\ sel = NoSel
  /\ filtered = << >>
  /\ refiltered = << >>
  /\ kpi = NoKpi
  /\ view = NoView
  /\ \E n \in 1..MaxN : gen = [n |-> n, rows |-> << >>, bases |-> << >>]
  /\ look = NoLook

NextGen ==
  \/ GenRow
  \/ GenReturn
  \/ Validate
  \/ FilterByClass

SpecGen == InitGen /\ [][NextGen]_vars

(***************************************************************************)
(* validate_and_clean alone: every set of columns on tables of at most one *)
(* row, and every table of at most MaxRows pool rows with all the columns. *)
(***************************************************************************)
InitValidate ==
  /\ pc = "loaded"
  /\ \/ \E cols \in SUBSET (AllCols \cup {"extra"}) :
          \E rows \in SeqsUpTo(Range(RowPool), 1) : raw = Table(cols, rows)
     \/ \E rows \in SeqsUpTo(Range(RowPool), MaxRows) : raw = Table(AllCols, rows)
  /\ Idle

NextValidate == Validate

SpecValidate == InitValidate /\ [][NextValidate]_vars

(***************************************************************************)
(* Properties of the static lookups.                                       *)
(***************************************************************************)
Places(frame) == [i \in DOMAIN frame.rows |-> frame.rows[i].Tempat]

(* The numeric rating the static table gives a place of a city. *)
RatingOf(city, place) ==
  LET items == KAI_TOURISM_RECS[city]
  IN items[CHOOSE i \in DOMAIN items : items[i].place = place].kai_star

StarTableBuilt == look.q \in {"table", "shown", "map", "done"}

StarTableShown == look.q \in {"shown", "map", "done"}

(* C7: for every city the points-of-interest table holds the city's entries *)
(* ordered by descending star rating, then ascending place name, and the    *)
(* minimum-star filter (counting the star characters of the label) keeps    *)
(* exactly the entries whose numeric rating is >= m, in the same order; for *)
(* Bandung and m = 3 exactly the one 3-star entry.                          *)
C7_StarTableSortedAndFiltered ==
  (StarTableBuilt /\ look.city \in DOMAIN KAI_TOURISM_RECS) =>
    LET items == KAI_TOURISM_RECS[look.city]
        names == Places(look.rec_df)
    IN /\ Len(names) = Len(items)
       /\ Range(names) = {items[i].place : i \in DOMAIN items}
       /\ \A i, j \in DOMAIN names :
            i < j =>
              \/ RatingOf(look.city, names[i]) > RatingOf(look.city, names[j])
              \/ /\ RatingOf(look.city, names[i]) = RatingOf(look.city, names[j])
                 /\ StrLess(names[i], names[j])
       /\ look.city = "Bandung" =>
            names = <<"Kawah Putih Ciwidey", "Gedung Sate", "Jalan Braga">>
       /\ look.city = "Surabaya" =>
            names = <<"Kota Tua (Kembang Jepun)", "Tugu Pahlawan",
                      "House of Sampoerna">>
       /\ StarTableShown =>
            /\ Places(look.shown) =
                 SelectSeq(names,
                           LAMBDA p : RatingOf(look.city, p) >= look.min_star)
            /\ \A i \in DOMAIN look.shown.rows :
                 look.shown.rows[i] \in Range(look.rec_df.rows)
            /\ (look.city = "Bandung" /\ look.min_star = 3) =>
                 Places(look.shown) = <<"Kawah Putih Ciwidey">>

C7_Witness ==
  /\ StarTableShown
  /\ look.city = "Bandung"
  /\ look.min_star = 3
  /\ Len(look.shown.rows) = 1
  /\ Len(look.rec_df.rows) = 3

KnownDestinations ==
  {<<"Jakarta-Bandung", "Bandung">>, <<"Jakarta-Yogyakarta", "Yogyakarta">>,
   <<"Jakarta-Surabaya", "Surabaya">>, <<"Bandung-Yogyakarta", "Yogyakarta">>,
   <<"Yogyakarta-Surabaya", "Surabaya">>, <<"Surabaya-Malang", "Malang">>}

KnownCities == {"Bandung", "Yogyakarta", "Surabaya", "Malang"}

(* C8: the static lookups are total: get_destination_city gives the mapped  *)
(* city for each of the six known routes and none for any other route, and  *)
(* the three table builders give an empty table with their fixed column     *)
(* headers for a city that is not a key of their static table.              *)
C8_LookupsTotal ==
  /\ look.q \in {"dest", "table", "shown", "map", "done"} =>
       /\ look.dest \in KnownCities \cup {None}
       /\ \A p \in KnownDestinations : look.route = p[1] => look.dest = p[2]
       /\ look.route \notin {p[1] : p \in KnownDestinations} => look.dest = None
  /\ (StarTableBuilt /\ look.city \notin KnownCities) =>
       look.rec_df = Frame(<<"KAI Star", "Tempat", "Kategori", "Alasan singkat">>, << >>)
  /\ (look.q \in {"map", "done"} /\ look.city \notin KnownCities) =>
       look.map_df = Frame(<<"city", "lat", "lon">>, << >>)
  /\ (look.q = "done" /\ look.city \notin KnownCities) =>
       look.iti_df = Frame(<<"Time", "Activity">>, << >>)
  /\ (look.q = "done" /\ look.city \in KnownCities) =>
       /\ Len(look.map_df.rows) = 1
       /\ Len(look.iti_df.rows) >= 5

C8_Witness ==
  /\ look.q = "done"
  /\ look.route = "unknown-route"
  /\ look.dest = None
  /\ look.city = "Semarang"
  /\ look.rec_df.rows = << >>
  /\ look.iti_df.rows = << >>

(***************************************************************************)
(* Properties of validate_and_clean.                                       *)
(***************************************************************************)
IndexIn(seq, x) == CHOOSE i \in DOMAIN seq : seq[i] = x

(* C1: a table lacking a required column fails with an error that lists     *)
(* exactly the absent required columns, each once, in required-column       *)
(* order, and no result is produced; a table with all ten required columns  *)
(* does not fail this way.                                                  *)
C1_MissingColumnsListed ==
  /\ pc = "schema_error" =>
       /\ err.kind = "ValueError"
       /\ Range(err.names) = AllCols \ raw.cols
       /\ Len(err.names) = Cardinality(AllCols \ raw.cols)
       /\ err.names # << >>
       /\ \A i, j \in DOMAIN err.names :
            i < j =>
              IndexIn(EXPECTED_COLS, err.names[i]) < IndexIn(EXPECTED_COLS, err.names[j])
       /\ df = << >>
  /\ pc = "validated" => (AllCols \subseteq raw.cols /\ err = NoError)
  /\ pc # "loaded" => (pc = "schema_error" <=> ~(AllCols \subseteq raw.cols))

C1_Witness ==
  /\ pc = "schema_error"
  /\ err.names = <<"date", "pain_point">>
  /\ "extra" \in raw.cols
  /\ Len(raw.rows) = 1

(* C2: every row of a table validate_and_clean returns has the ten required *)
(* fields, a satisfaction that is a number within [1, 5] and a date that    *)
(* parsed (not missing, a month 1..12 and a day 1..31).                     *)
C2_ValidatedRowsInRange ==
  pc = "validated" =>
    \A i \in DOMAIN df :
      /\ AllCols \subseteq DOMAIN df[i]
      /\ ~df[i].satisfaction.nan
      /\ df[i].satisfaction.n >= 100
      /\ df[i].satisfaction.n <= 500
      /\ df[i].date # NaTDate
      /\ df[i].date.m \in 1..12
      /\ df[i].date.d \in 1..31

C2_Witness ==
  /\ pc = "validated"
  /\ Len(raw.rows) = 2
  /\ raw.rows[1].satisfaction = FloatCell(730)
  /\ raw.rows[2].date = IsoFormat(2025, 2, 30)
  /\ Len(df) = 1
  /\ df[1].satisfaction = F(500)
  /\ df[1].date = [y |-> 2025, m |-> 2, d |-> 28]

(* A text with no whitespace at either end. *)
Trimmed(s) == s = << >> \/ (Head(s) # " " /\ s[Len(s)] # " ")

(* C11: every row of a table validate_and_clean returns has a country with  *)
(* no leading or trailing whitespace that is not the empty text, also when  *)
(* the input cell was missing, empty or only whitespace.                    *)
C11_CountryTrimmedNonEmpty ==
  pc = "validated" =>
    \A i \in DOMAIN df : Trimmed(df[i].country) /\ df[i].country # << >>

(* The trimming half alone: every text field of every returned row has no  *)
(* whitespace at either end.                                               *)
TextFieldsTrimmed ==
  pc = "validated" =>
    \A i \in DOMAIN df : \A c \in Range(TEXT_COLS) : Trimmed(df[i][c])

(* A missing country cell comes back as the text "nan", a whitespace-only  *)
(* one as the empty text.                                                  *)
MissingCountryReturnedAsNan ==
  /\ pc = "validated"
  /\ Len(raw.rows) = 1 /\ Len(df) = 1
  /\ raw.rows[1].country = NaNCell
  /\ df[1].country = <<"nan">>

BlankCountryReturnedEmpty ==
  /\ pc = "validated"
  /\ Len(raw.rows) = 1 /\ Len(df) = 1
  /\ raw.rows[1].country = <<" ">>
  /\ df[1].country = << >>

(* The rows of the input that have a numeric satisfaction and a parseable  *)
(* date, by position.                                                      *)
SurvivesAt ==
  {i \in DOMAIN raw.rows :
     /\ ~ToNumeric(raw.rows[i].satisfaction).nan
     /\ ToDatetime(raw.rows[i].date).ok}

KthSurvivor(k) ==
  CHOOSE i \in SurvivesAt : Cardinality({j \in SurvivesAt : j <= i}) = k

Blanks(n) == [i \in 1..n |-> " "]

(* out is text with its leading and trailing whitespace removed. *)
IsTrimOf(out, text) ==
  /\ Trimmed(out)
  /\ \E a, b \in 0..Len(text) : text = Blanks(a) \o out \o Blanks(b)

Clamped(n) == IF n < 100 THEN 100 ELSE IF n > 500 THEN 500 ELSE n

(* C12: on an input table with all ten required columns validate_and_clean *)
(* does not fail; it returns exactly the input rows whose satisfaction is   *)
(* numeric and whose date parses, in their original order, each with its    *)
(* satisfaction clamped to [1, 5], its text fields trimmed and its date     *)
(* parsed; every other row is dropped and no other row is.                  *)
C12_MalformedRowsDroppedOnly ==
  (pc # "loaded" /\ AllCols \subseteq raw.cols) =>
    /\ pc = "validated"
    /\ err = NoError
    /\ Len(df) = Cardinality(SurvivesAt)
    /\ \A k \in DOMAIN df :
         LET r == raw.rows[KthSurvivor(k)]
         IN /\ DOMAIN df[k] = DOMAIN r
            /\ df[k].satisfaction = F(Clamped(ToNumeric(r.satisfaction).n))
            /\ df[k].date = DtDate(ToDatetime(r.date))
            /\ \A c \in Range(TEXT_COLS) :
                 IsTrimOf(df[k][c], IF r[c] = NaNCell THEN <<"nan">> ELSE r[c])
            /\ \A c \in DOMAIN r \ AllCols : df[k][c] = r[c]

C12_Witness ==
  /\ pc = "validated"
  /\ Len(raw.rows) = 2
  /\ raw.rows[1].satisfaction = StrTextCell
  /\ raw.rows[2].satisfaction = FloatCell(730)
  /\ raw.rows[2].country = <<" ", "Japan", " ">>
  /\ Len(df) = 1
  /\ df[1].satisfaction = F(500)
  /\ df[1].country = <<"Japan">>

(***************************************************************************)
(* Properties of the filter.                                               *)
(***************************************************************************)
DayKey(d) == d.y * 10000 + d.m * 100 + d.d

Accepted(r) ==
  /\ r.country \in sel.country
  /\ r.route \in sel.route
  /\ r.ticket_class \in sel.ticket_class
  /\ r.purpose \in sel.purpose
  /\ DayKey(sel.start) <= DayKey(r.date)
  /\ DayKey(r.date) <= DayKey(sel.end)

AcceptedAt == {i \in DOMAIN df : Accepted(df[i])}

(* The index in df of the k-th accepted row. *)
KthAccepted(k) ==
  CHOOSE i \in AcceptedAt : Cardinality({j \in AcceptedAt : j <= i}) = k

(* C3: the filtered table holds exactly the rows whose country, route,      *)
(* ticket_class and purpose are in the accepted sets and whose date d has   *)
(* start <= d <= end, in their order in the validated table; an empty       *)
(* accepted set in any one dimension gives zero rows.                       *)
C3_FilterExact ==
  pc \in {"filtered", "refiltered"} =>
    /\ Len(filtered) = Cardinality(AcceptedAt)
    /\ \A k \in DOMAIN filtered : filtered[k] = df[KthAccepted(k)]
    /\ ({} \in {sel.country, sel.route, sel.ticket_class, sel.purpose}) =>
         filtered = << >>

C3_Witness ==
  /\ pc = "filtered"
  /\ Len(df) = 2
  /\ Len(filtered) = 1
  /\ filtered[1] = df[2]
  /\ filtered[1].date = sel.end
  /\ df[1].date = sel.start
  /\ sel.country # {}

(* C5: applying the same selection to the filtered table gives the filtered *)
(* table again: the same rows in the same order.                            *)
C5_FilterIdempotent == pc = "refiltered" => refiltered = filtered

C5_Witness ==
  /\ pc = "refiltered"
  /\ Len(df) = 2
  /\ Len(filtered) = 1
  /\ filtered[1] = df[2]
  /\ df[1] # df[2]

(***************************************************************************)
(* Properties of a whole pass.                                             *)
(***************************************************************************)
(* C9: validate_and_clean leaves the caller's table as it was, whether it   *)
(* returns or raises, and no later step of the pass changes the validated   *)
(* table.                                                                   *)
C9_InputsNotMutated == [][raw' = raw /\ (pc # "loaded" => df' = df)]_vars

C9_Witness ==
  /\ pc = "done"
  /\ Len(raw.rows) = 2
  /\ raw.rows[1].satisfaction = StrNumCell(50)
  /\ Len(df) = 2
  /\ Len(filtered) = 1
  /\ view.page = "Page 1"

AfterFiltering == pc \in {"metrics", "p1_recs", "p1_tourism", "done"}

(* C4: a pass over a validated table whose filtered result has zero rows    *)
(* raises nothing: the count is 0, the mean and the below-4.0 share are 0,  *)
(* top origin and top route are "-", and neither page evaluates a           *)
(* group-by-mean or most-frequent-value operation.                          *)
C4_EmptyNeverRaises ==
  /\ (pc \notin {"loaded", "schema_error"} /\ Filtered(df, sel) = << >>) =>
       err = NoError
  /\ (AfterFiltering /\ filtered = << >>) =>
       /\ kpi.total = 0
       /\ kpi.avg_sat = <<0, 1>>
       /\ kpi.low_sat_share = <<0, 1>>
       /\ kpi.top_country = {<<"-">>}
       /\ kpi.top_route = {<<"-">>}
       /\ ~view.recs.shown
       /\ ~view.tourism.shown
       /\ view.insight.worst_touch = {}
       /\ pc = "done" /\ view.page = "Page 1" => view.insight.note = "No data"
       /\ ~view.charts.shown

(* The same, for the passes whose validated table has at least one row. *)
EmptyGuardedOnNonEmptyTable == df # << >> => C4_EmptyNeverRaises

EmptyViewReached ==
  /\ pc = "done"
  /\ df # << >>
  /\ filtered = << >>
  /\ sel.route = {}
  /\ sel.country # {}

(***************************************************************************)
(* Properties of the generator.                                            *)
(***************************************************************************)
(* C6: make_dummy_data(N), N positive, raises nothing and returns exactly N *)
(* rows, each with a float satisfaction and a date that parses, and         *)
(* validate_and_clean of that table has N rows as well.                     *)
C6_GeneratorRowsAllKept ==
  /\ err = NoError
  /\ Len(gen.rows) <= gen.n
  /\ \A i \in DOMAIN gen.rows :
       /\ gen.rows[i].satisfaction.k = "float"
       /\ ToDatetime(gen.rows[i].date).ok
  /\ pc \in {"loaded", "validated", "class_filtered"} => Len(raw.rows) = gen.n
  /\ pc \in {"validated", "class_filtered"} => Len(df) = gen.n

C6_Witness ==
  /\ pc = "validated"
  /\ gen.n = 2
  /\ Len(df) = 2
  /\ raw.rows[1].date = IsoFormat(2025, 2, 28)
  /\ raw.rows[2].satisfaction = FloatCell(100)

HighestBase == 455

HighestBaseAt == {i \in DOMAIN gen.bases : gen.bases[i] = HighestBase}

KthHighestBase(k) ==
  CHOOSE i \in HighestBaseAt : Cardinality({j \in HighestBaseAt : j <= i}) = k

SelectsHighestBase(label) ==
  (pc = "class_filtered" /\ sel.ticket_class = {<<label>>}) =>
    /\ Len(filtered) = Cardinality(HighestBaseAt)
    /\ \A k \in DOMAIN filtered : filtered[k] = df[KthHighestBase(k)]

====
